---- MODULE Spec2Model ----
(***************************************************************************)
(* Careerone job scraper: the run of main() and of the crawler it builds,  *)
(* for the variants of the repository.                                     *)
(*                                                                         *)
(*   "cheerio"     src/src/main.js 1-606      CheerioCrawler               *)
(*   "playwright"  src/unnamed/part_000 1-640 PlaywrightCrawler, helpers   *)
(*   "puppeteer"   src/unnamed/part_002       PuppeteerCrawler             *)
(*   "hybrid"      src/unnamed/part_001       sequential loop, Nuxt state  *)
(*                                                                         *)
(* JavaScript runs one handler at a time and switches handlers only at an  *)
(* await: every action below is one synchronous segment of the code, from  *)
(* one await to the next.  The effect of an awaited call (Dataset.pushData,*)
(* enqueueLinks) is applied when the handler resumes from it, or the call  *)
(* rejects and the handler throws there.                                   *)
(***************************************************************************)
EXTENDS Integers, Sequences, FiniteSets, TLC

\* ------------------------------------------------------------- bounds
MaxWanted == 2         \* results_wanted ranges over 1..MaxWanted
MaxPagesIn == 2        \* max_pages ranges over 1..MaxPagesIn
MaxLinks == 2          \* job links found on one results page
MaxFaults == 1         \* rejected calls, failed fetches and block pages per run
MaxInFlight == 2       \* handlers in flight (maxConcurrency is 20, 3 or 8)
MaxRetries == 1        \* maxRequestRetries (5, 3 or 4 in the code)

\* ------------------------------------------------------------- values
Undefined == "<undefined>"
JobUrls == {<<"jobview", 1>>, <<"jobview", 2>>, <<"jobview", 3>>}

Min(a, b) == IF a < b THEN a ELSE b
Max(a, b) == IF a > b THEN a ELSE b
Range(s) == {s[i] : i \in 1..Len(s)}

\* All sequences over S of length <= n.
RECURSIVE SeqsUpTo(_, _)
SeqsUpTo(S, n) ==
    IF n = 0 THEN {<<>>}
    ELSE LET shorter == SeqsUpTo(S, n - 1)
         IN shorter \cup {Append(s, x) : s \in {t \in shorter : Len(t) = n - 1}, x \in S}

IsInjective(s) == \A i, j \in 1..Len(s) : s[i] = s[j] => i = j

\* [...new Set(seq)]: first occurrences, in order.
RECURSIVE Dedup(_)
Dedup(s) ==
    IF s = <<>> THEN <<>>
    ELSE LET front == Dedup(SubSeq(s, 1, Len(s) - 1))
             last == s[Len(s)]
         IN IF last \in Range(front) THEN front ELSE Append(front, last)

\* String.prototype.trim on the strings the inputs range over.
Trim(s) ==
    CASE s = "  " -> ""
      [] s = " s1 " -> "s1"
      [] OTHER -> s

\* typeof x === 'string' && x.trim()
IsUsableString(x) == x # Undefined /\ Trim(x) # ""

VARIABLES
    variant,        \* which implementation runs
    input,          \* Actor.getInput()
    mainPc,         \* position of main(): start, run, finished, thrown, exited
    fatal,          \* the error main() threw: none, config, fetch
    exitCode,       \* the process's exit code, -1 while it runs
    initialUrls,    \* the resolved seeds
    queue,          \* requests waiting in the request queue
    known,          \* urls ever added to the queue (its uniqueKey dedup)
    running,        \* handlers in flight, each suspended at an await
    done,           \* requests the crawler is finished with
    saved,          \* let saved
    seenUrls,       \* const seenUrls
    failed,         \* let failed
    stats,          \* const stats
    dataset,        \* url -> number of records pushed with it
    faults,         \* requests (hybrid: fetches) hit by an injected fault
    admitted,       \* url -> times a LIST handler admitted it
    enqueued,       \* url -> times it was handed to enqueueLinks as DETAIL
    emptyPages,     \* result pages on which no job was found
    pushedKinds,    \* the kinds of record pushed: bare, listing, detail
    warned,         \* the no-records warning was logged
    call,           \* a helper function's call: its name, argument and result
    fetched,        \* urls a page fetch was made for
    loop            \* hybrid: the locals of main()'s loops

vars == <<variant, input, mainPc, fatal, exitCode, initialUrls, queue, known,
          running, done, saved, seenUrls, failed, stats, dataset, faults,
          admitted, enqueued, emptyPages, pushedKinds, warned, call, fetched, loop>>

crawlVars == <<queue, known, running, done, saved, seenUrls, failed, stats,
               dataset, faults, admitted, enqueued, emptyPages, pushedKinds, fetched>>

\* ------------------------------------------------------------- input
RESULTS_WANTED == Max(1, input.results_wanted)
MAX_PAGES == Max(1, input.max_pages)
collectDetails == input.collectDetails

BuiltUrl == "built"

\* The priority chain with the built url also standing in for an array that
\* holds no usable entry.
PrioritySeedsOrBuilt(in) ==
    LET kept == SelectSeq(in.startUrls.items, IsUsableString)
    IN Dedup(IF IsUsableString(in.url) THEN <<Trim(in.url)>>
             ELSE IF IsUsableString(in.startUrl) THEN <<Trim(in.startUrl)>>
             ELSE IF in.startUrls.isArray /\ Len(kept) > 0
                  THEN [i \in 1..Len(kept) |-> Trim(kept[i])]
             ELSE <<BuiltUrl>>)

\* Priority chain: url > startUrl > startUrls > built.
PrioritySeeds(in) ==
    Dedup(IF IsUsableString(in.url) THEN <<Trim(in.url)>>
          ELSE IF IsUsableString(in.startUrl) THEN <<Trim(in.startUrl)>>
          ELSE IF in.startUrls.isArray /\ Len(in.startUrls.items) > 0
               THEN LET kept == SelectSeq(in.startUrls.items, IsUsableString)
                    IN [i \in 1..Len(kept) |-> Trim(kept[i])]
          ELSE <<BuiltUrl>>)

\* JavaScript truthiness of an input string.
Truthy(x) == x # Undefined /\ x # ""

\* part_002: url and startUrl are taken untrimmed when truthy strings.
PuppeteerSeeds(in) ==
    Dedup(IF Truthy(in.url) THEN <<in.url>>
          ELSE IF Truthy(in.startUrl) THEN <<in.startUrl>>
          ELSE IF in.startUrls.isArray /\ Len(in.startUrls.items) > 0
               THEN LET kept == SelectSeq(in.startUrls.items, IsUsableString)
                    IN [i \in 1..Len(kept) |-> Trim(kept[i])]
          ELSE <<BuiltUrl>>)

\* part_001: every configured source is pushed; the built url only when
\* nothing was.
ConcatSeeds(in) ==
    LET all == (IF in.startUrls.isArray /\ Len(in.startUrls.items) > 0
                THEN in.startUrls.items ELSE <<>>)
               \o (IF Truthy(in.startUrl) THEN <<in.startUrl>> ELSE <<>>)
               \o (IF Truthy(in.url) THEN <<in.url>> ELSE <<>>)
    IN IF all = <<>> THEN <<BuiltUrl>> ELSE all

SeedsOf(v, in) ==
    CASE v = "hybrid" -> ConcatSeeds(in)
      [] v = "puppeteer" -> PuppeteerSeeds(in)
      [] OTHER -> PrioritySeeds(in)

NoArray == [isArray |-> FALSE, items |-> <<>>]
Array(items) == [isArray |-> TRUE, items |-> items]

OneSeed == [url |-> "u", startUrl |-> Undefined, startUrls |-> NoArray]
TwoSeeds == [url |-> Undefined, startUrl |-> Undefined, startUrls |-> Array(<<"s1", "s2">>)]
NoSeed == [url |-> Undefined, startUrl |-> Undefined, startUrls |-> Array(<<"  ">>)]

Inputs(sources, wanted, pages) ==
    {[url |-> s.url, startUrl |-> s.startUrl, startUrls |-> s.startUrls,
      results_wanted |-> rw, max_pages |-> mp, collectDetails |-> cd] :
        s \in sources, rw \in wanted, mp \in pages, cd \in BOOLEAN}

CrawlInputs == Inputs({OneSeed, TwoSeeds, NoSeed}, 1..MaxWanted, 1..MaxPagesIn)

\* The inputs of the seed resolution, each source absent, blank, padded or set.
StringInputs == {Undefined, "  ", " s1 ", "s1", "u"}
ArrayInputs == {NoArray, Array(<<>>), Array(<<"  ">>), Array(<<"s1">>),
                Array(<<"s1", "s2">>), Array(<<"s1", " s1 ">>), Array(<<"  ", "s2">>)}
SeedInputs ==
    Inputs({[url |-> u, startUrl |-> s, startUrls |-> a] :
                u \in StringInputs, s \in StringInputs, a \in ArrayInputs}, {1}, {1})

\* ------------------------------------------------------------- requests
ListUrl(seed, page) == <<seed, page>>

Request(label, url, pageNo) ==
    [label |-> label, url |-> url, pageNo |-> pageNo, retryCount |-> 0]

\* A handler in flight: its request, the await it is suspended at and its locals
\* (savedArg: the copy of saved that the playwright variant passes to its helpers).
Handler(req, pc, links, toAdmit, remaining, savedArg) ==
    [req |-> req, pc |-> pc, links |-> links, toAdmit |-> toAdmit,
     remaining |-> remaining, savedArg |-> savedArg]

PageLinks == {s \in SeqsUpTo(JobUrls, MaxLinks) : IsInjective(s)}

Total(f) ==
    LET RECURSIVE Sum(_)
        Sum(S) == IF S = {} THEN 0
                  ELSE LET x == CHOOSE y \in S : TRUE IN f[x] + Sum(S \ {x})
    IN Sum(DOMAIN f)

NoLoop == [pc |-> "none", seedIdx |-> 0, pageNo |-> 0, page |-> 0, jobs |-> <<>>,
           meta |-> [page |-> 0, totalPages |-> 0], fetches |-> 0]

\* let pageNo = 1; let nextUrl = start; (fetches: the result pages fetched for
\* the seed so far)
SeedLoop(i) == [pc |-> "while", seedIdx |-> i, pageNo |-> 1, page |-> 0, jobs |-> <<>>,
                meta |-> [page |-> 0, totalPages |-> 0], fetches |-> 0]

NoCall == [fn |-> "none", arg |-> Undefined, returned |-> FALSE, result |-> Undefined]

InitRun ==
    /\ mainPc = "start"
    /\ fatal = "none"
    /\ exitCode = -1
    /\ initialUrls = <<>>
    /\ queue = {}
    /\ known = {}
    /\ running = {}
    /\ done = {}
    /\ saved = 0
    /\ seenUrls = {}
    /\ failed = 0
    /\ stats = [listPages |-> 0, detailPages |-> 0, errors |-> 0]
    /\ dataset = [u \in JobUrls |-> 0]
    /\ faults = 0
    /\ admitted = [u \in JobUrls |-> 0]
    /\ enqueued = [u \in JobUrls |-> 0]
    /\ emptyPages = {}
    /\ pushedKinds = {}
    /\ warned = FALSE
    /\ fetched = {}
    /\ loop = NoLoop

InitCommon == InitRun /\ call = NoCall

InitCheerio ==
    /\ variant = "cheerio"
    /\ input \in CrawlInputs
    /\ InitCommon

InitPlaywright ==
    /\ variant = "playwright"
    /\ input \in Inputs({OneSeed, NoSeed}, 1..MaxWanted, 1..MaxPagesIn)
    /\ InitCommon

InitPuppeteer ==
    /\ variant = "puppeteer"
    /\ input \in Inputs({OneSeed, NoSeed}, 1..MaxWanted, 1..MaxPagesIn)
    /\ InitCommon

InitHybrid ==
    /\ variant = "hybrid"
    /\ input \in Inputs({OneSeed, TwoSeeds}, 1..MaxWanted, 1..MaxPagesIn)
    /\ InitCommon

InitSeeds ==
    /\ variant \in {"cheerio", "playwright", "puppeteer", "hybrid"}
    /\ input \in SeedInputs
    /\ InitCommon

\* ------------------------------------------------------------- main()
\* Seed resolution; throws when it resolves nothing, else crawler.run(seeds).
MainResolve ==
    /\ mainPc = "start"
    /\ LET seeds == SeedsOf(variant, input)
       IN /\ initialUrls' = seeds
          /\ IF seeds = <<>>
             THEN /\ mainPc' = "thrown"
                  /\ fatal' = "config"
                  /\ UNCHANGED <<queue, known, loop>>
             ELSE /\ mainPc' = "run"
                  /\ fatal' = fatal
                  /\ IF variant = "hybrid"
                     THEN /\ loop' = SeedLoop(1)
                          /\ UNCHANGED <<queue, known>>
                     ELSE /\ queue' = {Request("LIST", ListUrl(seeds[i], 0), 1) : i \in 1..Len(seeds)}
                          /\ known' = {ListUrl(seeds[i], 0) : i \in 1..Len(seeds)}
                          /\ loop' = loop
    /\ UNCHANGED <<call, warned, pushedKinds, emptyPages, variant, input, exitCode, running, done, saved, seenUrls,
                   failed, stats, dataset, faults, admitted, enqueued, fetched>>

\* crawler.run() resolves once the queue is empty and no handler is in flight;
\* main() logs the totals and, if (!saved), the no-records warning.
CrawlerFinished ==
    /\ mainPc = "run"
    /\ variant \in {"cheerio", "playwright", "puppeteer"}
    /\ queue = {}
    /\ running = {}
    /\ mainPc' = "finished"
    /\ warned' = (saved = 0)
    /\ UNCHANGED <<call, variant, input, fatal, exitCode, initialUrls, loop>>
    /\ UNCHANGED crawlVars

\* finally { await Actor.exit() }: Actor.exit() ends the process with exit
\* code 0, so the handler of main().catch, process.exit(1), is never reached.
MainFinally ==
    /\ mainPc \in {"finished", "thrown"}
    /\ mainPc' = "exited"
    /\ exitCode' = 0
    /\ UNCHANGED <<call, warned, variant, input, fatal, initialUrls, loop>>
    /\ UNCHANGED crawlVars

\* ------------------------------------------------------------- Crawlee
\* A handler threw, or the navigation failed: the request is reclaimed for a
\* retry, or, out of retries, handed to failedRequestHandler.
CanDispatch(r) ==
    /\ mainPc = "run"
    /\ r \in queue
    /\ Cardinality(running) < MaxInFlight

Reclaim(r, blocked, q) ==
    IF r.retryCount < MaxRetries
    THEN /\ queue' = q \cup {[r EXCEPT !.retryCount = @ + 1]}
         /\ UNCHANGED <<done, failed>>
         /\ stats' = stats
    ELSE /\ queue' = q
         /\ done' = done \cup {[url |-> r.url, label |-> r.label, result |-> "failed", blocked |-> blocked]}
         /\ failed' = failed + 1
         /\ stats' = [stats EXCEPT !.errors = @ + 1]

MarkHandled(r) ==
    done' = done \cup {[url |-> r.url, label |-> r.label, result |-> "ok", blocked |-> FALSE]}

\* catch (error) { failed++; stats.errors.push(...) } of the puppeteer variant's
\* requestHandler: nothing is rethrown, the handler returns normally and Crawlee
\* marks the request as handled.
Swallow(r, blocked, q) ==
    /\ queue' = q
    /\ done' = done \cup {[url |-> r.url, label |-> r.label, result |-> "ok", blocked |-> blocked]}
    /\ failed' = failed + 1
    /\ stats' = [stats EXCEPT !.errors = @ + 1]

\* An exception inside the requestHandler.
HandlerThrows(r, blocked, q) ==
    IF variant = "puppeteer" THEN Swallow(r, blocked, q) ELSE Reclaim(r, blocked, q)

mainVars == <<variant, input, mainPc, fatal, exitCode, initialUrls, loop, warned, call>>

Count(s, u) == Cardinality({i \in 1..Len(s) : s[i] = u})

\* Records pushed / urls admitted: one more for every occurrence in s.
Plus(f, s) == [u \in DOMAIN f |-> f[u] + Count(s, u)]

\* The budget cut without the seen-set filter.
SliceOnly(links, remaining, seen) ==
    SubSeq(links, 1, Min(Len(links), Max(0, remaining)))

\* The seen-set filter without the budget cut.
FilterOnly(links, remaining, seen) == SelectSeq(links, LAMBDA l : l \notin seen)

\* uniqueLinks.slice(0, Math.max(0, remaining)).filter(l => !seenUrls.has(l))
SliceThenFilter(links, remaining, seen) ==
    SelectSeq(SubSeq(links, 1, Min(Len(links), Max(0, remaining))),
              LAMBDA l : l \notin seen)

\* jobLinks.filter(l => !seenUrls.has(l)).slice(0, remaining), remaining > 0
FilterThenSlice(links, remaining, seen) ==
    LET fresh == SelectSeq(links, LAMBDA l : l \notin seen)
    IN SubSeq(fresh, 1, Min(Len(fresh), remaining))

Admit(links, remaining, seen) ==
    IF variant = "playwright" THEN FilterThenSlice(links, remaining, seen)
    ELSE SliceThenFilter(links, remaining, seen)

\* The value the handler reads as saved: the shared counter, or, in the
\* playwright variant's helpers, their parameter.
SavedView(savedArg, shared) == IF variant = "playwright" THEN savedArg ELSE shared

\* The pagination condition with the page limit off by one.
PaginationPastMax(savedView, pageNo) ==
    savedView < RESULTS_WANTED /\ pageNo <= MAX_PAGES

\* if (saved < RESULTS_WANTED && pageNo < MAX_PAGES)
PaginationWanted(savedView, pageNo) ==
    savedView < RESULTS_WANTED /\ pageNo < MAX_PAGES

\* The guard with > for >=.
TargetPassed(savedView) == savedView > RESULTS_WANTED

\* The guard at the head of the LIST and DETAIL branches:
\* if (saved >= RESULTS_WANTED) return;
TargetReached(savedView) == savedView >= RESULTS_WANTED

\* The handler of r returned, or is suspended as h.
Finish(r, h, suspend) ==
    IF suspend
    THEN /\ running' = (running \ {x \in running : x.req = r}) \cup {h}
         /\ done' = done
    ELSE /\ running' = running \ {x \in running : x.req = r}
         /\ MarkHandled(r)

\* The next page's request with the page number of the current one.
NextListSamePageNo(r) == Request("LIST", ListUrl(r.url[1], r.pageNo + 1), r.pageNo)

\* enqueueLinks({urls: [nextUrl], userData: {label: 'LIST', pageNo: pageNo + 1}})
NextListRequest(r) == Request("LIST", ListUrl(r.url[1], r.pageNo + 1), r.pageNo + 1)

Crawlers == {"cheerio", "playwright", "puppeteer"}

\* ------------------------------------------------------------- fetch
\* A fault hits request r: at most MaxFaults requests are hit by faults, a
\* request that was hit once may be hit again at each of its retries.
Fault(r) ==
    /\ faults < MaxFaults \/ r.retryCount > 0
    /\ faults' = IF r.retryCount = 0 THEN faults + 1 ELSE faults

\* The navigation fails (timeout, network): the handler is not run, Crawlee
\* reclaims the request.
FetchError(r) ==
    /\ CanDispatch(r)
    /\ variant \in Crawlers
    /\ Fault(r)
    /\ fetched' = fetched \cup {r.url}
    /\ Reclaim(r, FALSE, queue \ {r})
    /\ UNCHANGED <<pushedKinds, emptyPages, known, running, saved, seenUrls, dataset, admitted, enqueued>>
    /\ UNCHANGED mainVars

\* HTTP 403 or 429: session.retire() and throw.  In the cheerio variant this is
\* the handler's first statement; in the puppeteer variant it follows the LIST
\* guard and stands inside the handler's try block.
Blocked(r, status) ==
    /\ CanDispatch(r)
    /\ variant \in {"cheerio", "puppeteer"}
    /\ variant = "puppeteer" /\ r.label = "LIST" => ~TargetReached(saved)
    /\ status \in {403, 429}
    /\ Fault(r)
    /\ fetched' = fetched \cup {r.url}
    /\ HandlerThrows(r, TRUE, queue \ {r})
    /\ UNCHANGED <<pushedKinds, emptyPages, known, running, saved, seenUrls, dataset, admitted, enqueued>>
    /\ UNCHANGED mainVars

\* ------------------------------------------------------------- LIST
\* Target already reached: the handler returns at once.
ListSkip(r) ==
    /\ CanDispatch(r)
    /\ variant \in Crawlers
    /\ r.label = "LIST"
    /\ TargetReached(saved)
    /\ queue' = queue \ {r}
    /\ fetched' = fetched \cup {r.url}
    /\ Finish(r, r, FALSE)
    /\ UNCHANGED <<pushedKinds, emptyPages, known, saved, seenUrls, failed, stats, dataset, faults, admitted, enqueued>>
    /\ UNCHANGED mainVars

\* No job link on the page, and the handler goes on to the next page.
ListEmptyPaginates(r) ==
    /\ CanDispatch(r)
    /\ variant = "cheerio"
    /\ r.label = "LIST"
    /\ saved < RESULTS_WANTED
    /\ fetched' = fetched \cup {r.url}
    /\ stats' = [stats EXCEPT !.listPages = @ + 1]
    /\ running' = running
    /\ done' = done \cup {[url |-> r.url, label |-> r.label, result |-> "ok", blocked |-> FALSE]}
    /\ emptyPages' = emptyPages \cup {r.url}
    /\ IF r.pageNo < MAX_PAGES
       THEN /\ queue' = (queue \ {r}) \cup
                         {Request("LIST", ListUrl(r.url[1], r.pageNo + 1), r.pageNo + 1)}
            /\ known' = known \cup {ListUrl(r.url[1], r.pageNo + 1)}
       ELSE /\ queue' = queue \ {r}
            /\ known' = known
    /\ UNCHANGED <<pushedKinds, saved, seenUrls, failed, dataset, faults, admitted, enqueued>>
    /\ UNCHANGED mainVars

\* cheerio: no job link on the page; the debug HTML is stored, the handler returns.
ListEmpty(r) ==
    /\ CanDispatch(r)
    /\ variant = "cheerio"
    /\ r.label = "LIST"
    /\ ~TargetReached(saved)
    /\ queue' = queue \ {r}
    /\ fetched' = fetched \cup {r.url}
    /\ stats' = [stats EXCEPT !.listPages = @ + 1]
    /\ Finish(r, r, FALSE)
    /\ emptyPages' = emptyPages \cup {r.url}
    /\ UNCHANGED <<pushedKinds, known, saved, seenUrls, failed, dataset, faults, admitted, enqueued>>
    /\ UNCHANGED mainVars

\* The links of the page are cut to the remaining budget and filtered by the
\* seen-set, the admitted ones are marked as seen, and the handler awaits
\* enqueueLinks or Dataset.pushData; with nothing admitted it goes on to the
\* pagination in the same segment.
AdmitLinks(r, links, nextFound, savedArg) ==
    LET view == SavedView(savedArg, saved)
        remaining == RESULTS_WANTED - view
        adm == Admit(links, remaining, seenUrls)
        pc == IF adm # <<>>
              THEN (IF collectDetails THEN "enqDetails" ELSE "push")
              ELSE "enqNext"
    IN /\ seenUrls' = seenUrls \cup Range(adm)
       /\ admitted' = Plus(admitted, adm)
       /\ Finish(r, Handler(r, pc, links, adm, remaining, savedArg),
                 adm # <<>> \/ (PaginationWanted(view, r.pageNo) /\ nextFound))

\* cheerio: the page is parsed when the handler starts.
ListAdmit(r, links, nextFound) ==
    /\ CanDispatch(r)
    /\ variant = "cheerio"
    /\ r.label = "LIST"
    /\ ~TargetReached(saved)
    /\ links # <<>>
    /\ AdmitLinks(r, links, nextFound, 0)
    /\ queue' = queue \ {r}
    /\ fetched' = fetched \cup {r.url}
    /\ stats' = [stats EXCEPT !.listPages = @ + 1]
    /\ UNCHANGED <<pushedKinds, emptyPages, known, saved, failed, dataset, faults, enqueued>>
    /\ UNCHANGED mainVars

\* playwright, puppeteer: the handler passes its guard and waits for the page
\* (waitForLoadState, randomDelay, waitForSelector / sleep).  The puppeteer
\* variant counts the page before it waits; the playwright variant hands the
\* current value of saved to handleListPage.
ListOpen(r) ==
    /\ CanDispatch(r)
    /\ variant \in {"playwright", "puppeteer"}
    /\ r.label = "LIST"
    /\ ~TargetReached(saved)
    /\ queue' = queue \ {r}
    /\ fetched' = fetched \cup {r.url}
    /\ stats' = IF variant = "puppeteer" THEN [stats EXCEPT !.listPages = @ + 1] ELSE stats
    /\ Finish(r, Handler(r, "wait", <<>>, <<>>, 0, saved), TRUE)
    /\ UNCHANGED <<pushedKinds, emptyPages, known, saved, seenUrls, failed, dataset, faults, admitted, enqueued>>
    /\ UNCHANGED mainVars

\* playwright: no job selector appeared and the page holds no job link after
\* the scroll (found = FALSE): return.  Else stats.listPages++ and the links
\* are read with page.evaluate.
PwListLoaded(h, found) ==
    /\ mainPc = "run"
    /\ variant = "playwright"
    /\ h \in running
    /\ h.req.label = "LIST"
    /\ h.pc = "wait"
    /\ stats' = IF found THEN [stats EXCEPT !.listPages = @ + 1] ELSE stats
    /\ Finish(h.req, [h EXCEPT !.pc = "extract"], found)
    /\ emptyPages' = IF found THEN emptyPages ELSE emptyPages \cup {h.req.url}
    /\ UNCHANGED <<pushedKinds, queue, known, saved, seenUrls, failed, dataset, faults, admitted, enqueued, fetched>>
    /\ UNCHANGED mainVars

\* puppeteer: the page text looks like a block page: session.retire() and throw.
PpContentBlocked(h) ==
    /\ mainPc = "run"
    /\ variant = "puppeteer"
    /\ h \in running
    /\ h.pc = "wait"
    /\ Fault(h.req)
    /\ running' = running \ {h}
    /\ HandlerThrows(h.req, TRUE, queue)
    /\ UNCHANGED <<pushedKinds, emptyPages, known, saved, seenUrls, dataset, admitted, enqueued, fetched>>
    /\ UNCHANGED mainVars

\* playwright, puppeteer: page.evaluate returned the job links.
ListExtract(h, links, nextFound) ==
    /\ mainPc = "run"
    /\ h \in running
    /\ h.req.label = "LIST"
    /\ \/ variant = "puppeteer" /\ h.pc = "wait"
       \/ variant = "playwright" /\ h.pc = "extract"
    /\ IF links = <<>>
       THEN /\ Finish(h.req, h, FALSE)
            /\ UNCHANGED <<seenUrls, admitted, enqueued>>
       ELSE AdmitLinks(h.req, links, nextFound, h.savedArg)
    /\ emptyPages' = IF links = <<>> THEN emptyPages \cup {h.req.url} ELSE emptyPages
    /\ UNCHANGED <<pushedKinds, queue, known, saved, failed, stats, dataset, faults, fetched, enqueued>>
    /\ UNCHANGED mainVars

\* enqueueLinks({urls: toEnqueue, label: DETAIL}) resolved; pagination next.
ListEnqueued(h, nextFound) ==
    /\ mainPc = "run"
    /\ h \in running
    /\ h.pc = "enqDetails"
    /\ queue' = queue \cup {Request("DETAIL", u, 1) : u \in Range(h.toAdmit) \ known}
    /\ known' = known \cup Range(h.toAdmit)
    /\ enqueued' = Plus(enqueued, h.toAdmit)
    /\ Finish(h.req, [h EXCEPT !.pc = "enqNext"],
              PaginationWanted(SavedView(h.savedArg, saved), h.req.pageNo) /\ nextFound)
    /\ UNCHANGED <<pushedKinds, emptyPages, saved, seenUrls, failed, stats, dataset, faults, admitted, fetched>>
    /\ UNCHANGED mainVars

\* The push counted as one record whatever it holds.
SavedPlusOne(n, items) == n + 1

\* saved += toPush.length; onSave: (count) => { saved += count; }
SavedPlus(n, items) == n + Len(items)

\* Dataset.pushData(items) resolved: saved += toPush.length (playwright:
\* onSave(newLinks.length)); pagination next.
ListPushed(h, nextFound) ==
    /\ mainPc = "run"
    /\ h \in running
    /\ h.req.label = "LIST"
    /\ h.pc = "push"
    /\ dataset' = Plus(dataset, h.toAdmit)
    /\ saved' = SavedPlus(saved, h.toAdmit)
    /\ Finish(h.req, [h EXCEPT !.pc = "enqNext"],
              PaginationWanted(SavedView(h.savedArg, saved'), h.req.pageNo) /\ nextFound)
    /\ pushedKinds' = pushedKinds \cup {"bare"}
    /\ UNCHANGED <<emptyPages, queue, known, seenUrls, failed, stats, faults, admitted, enqueued, fetched>>
    /\ UNCHANGED mainVars

\* enqueueLinks({urls: [nextUrl], label: LIST, pageNo: pageNo + 1}) resolved.
ListNextEnqueued(h) ==
    /\ mainPc = "run"
    /\ h \in running
    /\ h.pc = "enqNext"
    /\ LET next == NextListRequest(h.req)
       IN /\ queue' = IF next.url \in known THEN queue ELSE queue \cup {next}
          /\ known' = known \cup {next.url}
    /\ Finish(h.req, h, FALSE)
    /\ UNCHANGED <<pushedKinds, emptyPages, saved, seenUrls, failed, stats, dataset, faults, admitted, enqueued, fetched>>
    /\ UNCHANGED mainVars

\* ------------------------------------------------------------- DETAIL
DetailSkip(r) ==
    /\ CanDispatch(r)
    /\ variant \in Crawlers
    /\ r.label = "DETAIL"
    /\ TargetReached(saved)
    /\ queue' = queue \ {r}
    /\ fetched' = fetched \cup {r.url}
    /\ Finish(r, r, FALSE)
    /\ UNCHANGED <<pushedKinds, emptyPages, known, saved, seenUrls, failed, stats, dataset, faults, admitted, enqueued>>
    /\ UNCHANGED mainVars

\* cheerio: the record is extracted and handed to Dataset.pushData.
DetailStart(r) ==
    /\ CanDispatch(r)
    /\ variant = "cheerio"
    /\ r.label = "DETAIL"
    /\ ~TargetReached(saved)
    /\ queue' = queue \ {r}
    /\ fetched' = fetched \cup {r.url}
    /\ stats' = [stats EXCEPT !.detailPages = @ + 1]
    /\ Finish(r, Handler(r, "push", <<>>, <<r.url>>, 0, 0), TRUE)
    /\ UNCHANGED <<pushedKinds, emptyPages, known, saved, seenUrls, failed, dataset, faults, admitted, enqueued>>
    /\ UNCHANGED mainVars

\* playwright, puppeteer: the guard passed, the handler waits (waitForLoadState
\* and randomDelay, or the jitter sleep).
DetailOpen(r) ==
    /\ CanDispatch(r)
    /\ variant \in {"playwright", "puppeteer"}
    /\ r.label = "DETAIL"
    /\ ~TargetReached(saved)
    /\ queue' = queue \ {r}
    /\ fetched' = fetched \cup {r.url}
    /\ Finish(r, Handler(r, "wait", <<>>, <<>>, 0, saved), TRUE)
    /\ UNCHANGED <<pushedKinds, emptyPages, known, saved, seenUrls, failed, stats, dataset, faults, admitted, enqueued>>
    /\ UNCHANGED mainVars

\* playwright, puppeteer: stats.detailPages++, the record is extracted and
\* handed to Dataset.pushData.
DetailExtract(h) ==
    /\ mainPc = "run"
    /\ variant \in {"playwright", "puppeteer"}
    /\ h \in running
    /\ h.req.label = "DETAIL"
    /\ h.pc = "wait"
    /\ stats' = [stats EXCEPT !.detailPages = @ + 1]
    /\ Finish(h.req, [h EXCEPT !.pc = "push", !.toAdmit = <<h.req.url>>], TRUE)
    /\ UNCHANGED <<pushedKinds, emptyPages, queue, known, saved, seenUrls, failed, dataset, faults, admitted, enqueued, fetched>>
    /\ UNCHANGED mainVars

\* Dataset.pushData(item) resolved: saved++ (playwright: onSave()).
DetailSaved(h) ==
    /\ mainPc = "run"
    /\ h \in running
    /\ h.req.label = "DETAIL"
    /\ h.pc = "push"
    /\ dataset' = Plus(dataset, h.toAdmit)
    /\ saved' = saved + 1
    /\ Finish(h.req, h, FALSE)
    /\ pushedKinds' = pushedKinds \cup {"detail"}
    /\ UNCHANGED <<emptyPages, queue, known, seenUrls, failed, stats, faults, admitted, enqueued, fetched>>
    /\ UNCHANGED mainVars

\* The awaited call (enqueueLinks, Dataset.pushData, page.evaluate) rejects:
\* the handler throws out of its await.
AwaitRejected(h) ==
    /\ mainPc = "run"
    /\ h \in running
    /\ Fault(h.req)
    /\ running' = running \ {h}
    /\ HandlerThrows(h.req, FALSE, queue)
    /\ UNCHANGED <<pushedKinds, emptyPages, known, saved, seenUrls, dataset, admitted, enqueued, fetched>>
    /\ UNCHANGED mainVars

\* ------------------------------------------------------------- specifications
NextCheerio ==
    \/ MainResolve
    \/ CrawlerFinished
    \/ MainFinally
    \/ \E r \in queue : FetchError(r)
    \/ \E r \in queue, status \in {403, 429} : Blocked(r, status)
    \/ \E r \in queue : ListSkip(r)
    \/ \E r \in queue : ListEmpty(r)
    \/ \E r \in queue, links \in PageLinks, nextFound \in BOOLEAN : ListAdmit(r, links, nextFound)
    \/ \E h \in running, nextFound \in BOOLEAN : ListEnqueued(h, nextFound)
    \/ \E h \in running, nextFound \in BOOLEAN : ListPushed(h, nextFound)
    \/ \E h \in running : ListNextEnqueued(h)
    \/ \E r \in queue : DetailSkip(r)
    \/ \E r \in queue : DetailStart(r)
    \/ \E h \in running : DetailSaved(h)
    \/ \E h \in running : AwaitRejected(h)

SpecCheerio == InitCheerio /\ [][NextCheerio]_vars

NextPlaywright ==
    \/ MainResolve
    \/ CrawlerFinished
    \/ MainFinally
    \/ \E r \in queue : FetchError(r)
    \/ \E r \in queue : ListSkip(r)
    \/ \E r \in queue : ListOpen(r)
    \/ \E h \in running, found \in BOOLEAN : PwListLoaded(h, found)
    \/ \E h \in running, links \in PageLinks, nextFound \in BOOLEAN : ListExtract(h, links, nextFound)
    \/ \E h \in running, nextFound \in BOOLEAN : ListEnqueued(h, nextFound)
    \/ \E h \in running, nextFound \in BOOLEAN : ListPushed(h, nextFound)
    \/ \E h \in running : ListNextEnqueued(h)
    \/ \E r \in queue : DetailSkip(r)
    \/ \E r \in queue : DetailOpen(r)
    \/ \E h \in running : DetailExtract(h)
    \/ \E h \in running : DetailSaved(h)
    \/ \E h \in running : AwaitRejected(h)

SpecPlaywright == InitPlaywright /\ [][NextPlaywright]_vars

NextPuppeteer ==
    \/ MainResolve
    \/ CrawlerFinished
    \/ MainFinally
    \/ \E r \in queue : FetchError(r)
    \/ \E r \in queue, status \in {403, 429} : Blocked(r, status)
    \/ \E r \in queue : ListSkip(r)
    \/ \E r \in queue : ListOpen(r)
    \/ \E h \in running : PpContentBlocked(h)
    \/ \E h \in running, links \in PageLinks, nextFound \in BOOLEAN : ListExtract(h, links, nextFound)
    \/ \E h \in running, nextFound \in BOOLEAN : ListEnqueued(h, nextFound)
    \/ \E h \in running, nextFound \in BOOLEAN : ListPushed(h, nextFound)
    \/ \E h \in running : ListNextEnqueued(h)
    \/ \E r \in queue : DetailSkip(r)
    \/ \E r \in queue : DetailOpen(r)
    \/ \E h \in running : DetailExtract(h)
    \/ \E h \in running : DetailSaved(h)
    \/ \E h \in running : AwaitRejected(h)

SpecPuppeteer == InitPuppeteer /\ [][NextPuppeteer]_vars

\* ------------------------------------------------------------- hybrid
\* The hybrid variant has no crawler: main() fetches the pages itself, one
\* seed after the other, one page after the other.
HyActive(pc) == mainPc = "run" /\ variant = "hybrid" /\ loop.pc = pc

Seed == initialUrls[loop.seedIdx]

\* while (saved < RESULTS_WANTED && pageNo <= MAX_PAGES && nextUrl)
HyWhileCond == saved < RESULTS_WANTED /\ loop.pageNo <= MAX_PAGES

\* The loop of a seed is left: the next seed, or the end of the for loop, where
\* main() logs `Finished. Saved ${saved} items` and nothing else.
HySeedDone ==
    IF loop.seedIdx < Len(initialUrls)
    THEN /\ loop' = SeedLoop(loop.seedIdx + 1)
         /\ mainPc' = mainPc
         /\ warned' = warned
    ELSE /\ loop' = [loop EXCEPT !.pc = "end"]
         /\ mainPc' = "finished"
         /\ warned' = FALSE

\* The urls of the jobs of the embedded Nuxt state (any array, an url may
\* repeat, a job may lack one) with its meta block, or, when the state holds no
\* job, the job links of the HTML (a Set).
StateJobs == SeqsUpTo(JobUrls, MaxLinks)
Metas == [page : 0..(MaxPagesIn + 1), totalPages : 0..(MaxPagesIn + 1)]
NoMeta == [page |-> 0, totalPages |-> 0]

\* fetchHtml(nextUrl) returned: the jobs of the page are cut to the remaining
\* budget, filtered by the seen-set and marked as seen.  extractJobsFromState
\* gives a meta block only together with jobs.  The fetches of a seed are
\* counted up to MaxPagesIn + 1.
HyFetchPage(fromState, jobs, meta) ==
    /\ HyActive("while")
    /\ HyWhileCond
    /\ loop.fetches <= MaxPagesIn
    /\ IF fromState THEN jobs \in StateJobs \ {<<>>} ELSE jobs \in PageLinks /\ meta = NoMeta
    /\ fetched' = fetched \cup {ListUrl(Seed, loop.page)}
    /\ LET remaining == RESULTS_WANTED - saved
           toProcess == SliceThenFilter(jobs, remaining, seenUrls)
       IN /\ seenUrls' = seenUrls \cup Range(toProcess)
          /\ admitted' = Plus(admitted, toProcess)
          /\ loop' = [loop EXCEPT !.pc = "jobs", !.jobs = toProcess, !.meta = meta,
                                   !.fetches = @ + 1]
    /\ emptyPages' = IF jobs = <<>> THEN emptyPages \cup {ListUrl(Seed, loop.page)} ELSE emptyPages
    /\ UNCHANGED <<call, warned, pushedKinds, variant, input, mainPc, fatal, exitCode, initialUrls, queue, known,
                   running, done, saved, failed, stats, dataset, faults, enqueued>>

\* fetchHtml(nextUrl) throws (network error, timeout): the call stands outside
\* every try block, the exception leaves the loops and main().
HyFetchThrows ==
    /\ HyActive("while")
    /\ HyWhileCond
    /\ faults < MaxFaults
    /\ faults' = faults + 1
    /\ fetched' = fetched \cup {ListUrl(Seed, loop.page)}
    /\ mainPc' = "thrown"
    /\ fatal' = "fetch"
    /\ UNCHANGED <<call, warned, pushedKinds, emptyPages, variant, input, exitCode, initialUrls, queue, known, running, done,
                   saved, seenUrls, failed, stats, dataset, admitted, enqueued, loop>>

\* The while condition is false.
HyWhileExit ==
    /\ HyActive("while")
    /\ ~HyWhileCond
    /\ HySeedDone
    /\ UNCHANGED <<call, variant, input, fatal, exitCode, initialUrls>>
    /\ UNCHANGED crawlVars

\* One iteration of for (const job of toProcess): the budget check, then the
\* push of the listing's record (collectDetails false) or the detail fetch and
\* the push of the merged record; a failed detail fetch is logged.
HyJob(detailFails) ==
    /\ HyActive("jobs")
    /\ loop.jobs # <<>>
    /\ LET job == Head(loop.jobs)
       IN IF saved >= RESULTS_WANTED
          THEN /\ loop' = [loop EXCEPT !.jobs = <<>>]
               /\ UNCHANGED <<saved, dataset, fetched, faults>>
          ELSE /\ loop' = [loop EXCEPT !.jobs = Tail(loop.jobs)]
               /\ fetched' = IF collectDetails THEN fetched \cup {job} ELSE fetched
               /\ IF collectDetails /\ detailFails
                  THEN /\ faults < MaxFaults
                       /\ faults' = faults + 1
                       /\ UNCHANGED <<saved, dataset>>
                  ELSE /\ dataset' = Plus(dataset, <<job>>)
                       /\ saved' = saved + 1
                       /\ faults' = faults
    /\ pushedKinds' = IF saved' = saved THEN pushedKinds
                     ELSE pushedKinds \cup {IF collectDetails THEN "detail" ELSE "listing"}
    /\ UNCHANGED <<call, warned, emptyPages, variant, input, mainPc, fatal, exitCode, initialUrls, queue, known,
                   running, done, seenUrls, failed, stats, admitted, enqueued>>

\* After the jobs of the page: stop at the target, at the last page the state
\* reports or at MAX_PAGES, else go on with page (meta.page || pageNo) + 1.
HyPaginate ==
    /\ HyActive("jobs")
    /\ loop.jobs = <<>>
    /\ LET totalPages == loop.meta.totalPages
           currentPage == IF loop.meta.page # 0 THEN loop.meta.page ELSE loop.pageNo
           nextPage == currentPage + 1
       IN IF \/ saved >= RESULTS_WANTED
             \/ (totalPages # 0 /\ currentPage >= totalPages)
             \/ nextPage > MAX_PAGES
          THEN HySeedDone
          ELSE /\ loop' = [loop EXCEPT !.pc = "while", !.page = nextPage, !.pageNo = nextPage]
               /\ mainPc' = mainPc
               /\ warned' = warned
    /\ UNCHANGED <<call, variant, input, fatal, exitCode, initialUrls>>
    /\ UNCHANGED crawlVars

NextHybrid ==
    \/ MainResolve
    \/ MainFinally
    \/ \E fromState \in BOOLEAN, jobs \in StateJobs \cup PageLinks, meta \in Metas :
           HyFetchPage(fromState, jobs, meta)
    \/ HyFetchThrows
    \/ HyWhileExit
    \/ \E detailFails \in BOOLEAN : HyJob(detailFails)
    \/ HyPaginate

SpecHybrid == InitHybrid /\ [][NextHybrid]_vars

\* main() up to crawler.run() or the first fetch, for every input.
NextSeeds ==
    \/ MainResolve
    \/ MainFinally

SpecSeeds == InitSeeds /\ [][NextSeeds]_vars

\* Every variant, each with the inputs of one seed and of no seed (the hybrid
\* variant: of one seed and of two).
InitAll ==
    \/ variant = "cheerio" /\ input \in Inputs({OneSeed, NoSeed}, 1..MaxWanted, 1..MaxPagesIn) /\ InitCommon
    \/ InitPlaywright
    \/ InitPuppeteer
    \/ InitHybrid

NextAll ==
    \/ MainResolve
    \/ CrawlerFinished
    \/ MainFinally
    \/ \E r \in queue : FetchError(r)
    \/ \E r \in queue, status \in {403, 429} : Blocked(r, status)
    \/ \E r \in queue : ListSkip(r)
    \/ \E r \in queue : ListEmpty(r)
    \/ \E r \in queue, links \in PageLinks, nextFound \in BOOLEAN : ListAdmit(r, links, nextFound)
    \/ \E r \in queue : ListOpen(r)
    \/ \E h \in running, found \in BOOLEAN : PwListLoaded(h, found)
    \/ \E h \in running : PpContentBlocked(h)
    \/ \E h \in running, links \in PageLinks, nextFound \in BOOLEAN : ListExtract(h, links, nextFound)
    \/ \E h \in running, nextFound \in BOOLEAN : ListEnqueued(h, nextFound)
    \/ \E h \in running, nextFound \in BOOLEAN : ListPushed(h, nextFound)
    \/ \E h \in running : ListNextEnqueued(h)
    \/ \E r \in queue : DetailSkip(r)
    \/ \E r \in queue : DetailStart(r)
    \/ \E r \in queue : DetailOpen(r)
    \/ \E h \in running : DetailExtract(h)
    \/ \E h \in running : DetailSaved(h)
    \/ \E h \in running : AwaitRejected(h)
    \/ \E fromState \in BOOLEAN, jobs \in StateJobs \cup PageLinks, meta \in Metas :
           HyFetchPage(fromState, jobs, meta)
    \/ HyFetchThrows
    \/ HyWhileExit
    \/ \E detailFails \in BOOLEAN : HyJob(detailFails)
    \/ HyPaginate

SpecAll == InitAll /\ [][NextAll]_vars

\* ------------------------------------------------------------- properties
ListHandlers == {h \in running : h.req.label = "LIST"}
Pushed == Total(dataset)

\* C1: in the cheerio variant the number of records pushed to the dataset
\* never exceeds RESULTS_WANTED, whatever the interleaving of the handlers.
C1_PushedWithinWanted == variant = "cheerio" => Pushed <= RESULTS_WANTED

\* C2: no two records of the dataset carry the same url.
C2_NoDuplicateUrl == \A u \in JobUrls : dataset[u] <= 1

\* C3: every url is admitted by the seen-set exactly once: it is in the set
\* iff it was admitted once, it is handed to enqueueLinks as DETAIL and pushed
\* at most as often as it was admitted, and no two LIST handlers in flight
\* hold it as admitted.
C3_AdmittedOnce ==
    \A u \in JobUrls :
        /\ admitted[u] = (IF u \in seenUrls THEN 1 ELSE 0)
        /\ enqueued[u] <= admitted[u]
        /\ dataset[u] <= admitted[u]
        /\ Cardinality({h \in ListHandlers : h.pc \in {"enqDetails", "push"}
                                             /\ u \in Range(h.toAdmit)}) <= 1

\* Two LIST handlers in flight whose pages both start with the same url: one
\* admitted it, the other had budget for it and rejected it.
C3_Witness ==
    \E h1 \in ListHandlers, h2 \in ListHandlers :
        /\ h1 # h2
        /\ h1.links # <<>> /\ h2.links # <<>>
        /\ h1.links[1] = h2.links[1]
        /\ h1.links[1] \in Range(h1.toAdmit)
        /\ h2.remaining >= 1
        /\ h2.links[1] \notin Range(h2.toAdmit)

\* C6: when a LIST handler of the cheerio variant finds more links, none of
\* them seen, than the remaining budget r, it admits exactly the first r:
\* these alone are marked as seen, nothing is enqueued, fetched or counted in
\* that step, and the enqueueLinks call that follows hands over exactly them
\* (or rejects, and the handler throws).
C6_ExactlyBudget ==
    [][/\ \A h \in running' \ running :
            (/\ h.pc = "enqDetails"
             /\ h.req \in queue
             /\ Range(h.links) \cap seenUrls = {}
             /\ Len(h.links) > RESULTS_WANTED - saved)
            => /\ h.toAdmit = SubSeq(h.links, 1, RESULTS_WANTED - saved)
               /\ seenUrls' = seenUrls \cup Range(h.toAdmit)
               /\ enqueued' = enqueued
               /\ saved' = saved /\ dataset' = dataset
               /\ fetched' \ fetched \subseteq {h.req.url}
       /\ \A h \in running \ running' :
            h.pc = "enqDetails"
            => \/ enqueued' = Plus(enqueued, h.toAdmit)
               \/ /\ enqueued' = enqueued
                  /\ \A d \in done' \ done : d.result = "failed"
                  /\ [h EXCEPT !.pc = "enqNext"] \notin running'
      ]_vars

\* A page with more unseen links than budget, after its enqueueLinks call: the
\* first r links were enqueued once, the others are unseen, not enqueued, not
\* fetched and not pushed.
C6_Witness ==
    \E h \in ListHandlers :
        /\ variant = "cheerio" /\ collectDetails
        /\ h.pc = "enqNext"
        /\ Len(h.links) > h.remaining
        /\ Len(h.toAdmit) = h.remaining
        /\ \A u \in Range(h.toAdmit) : enqueued[u] = 1
        /\ \A u \in Range(h.links) \ Range(h.toAdmit) :
               u \notin seenUrls /\ enqueued[u] = 0 /\ u \notin fetched /\ dataset[u] = 0

\* The distinct result pages fetched for a seed.
PagesOf(seed) == {u \in fetched : u[1] = seed}

\* C4: for every seed at most MAX_PAGES distinct result pages are fetched.
C4_PagesWithinMax ==
    \A i \in 1..Len(initialUrls) : Cardinality(PagesOf(initialUrls[i])) <= MAX_PAGES

\* The run is over short of the target, and MAX_PAGES > 1 pages of a seed
\* were fetched.
C4_Witness ==
    /\ mainPc = "finished"
    /\ saved < RESULTS_WANTED
    /\ MAX_PAGES > 1
    /\ \E i \in 1..Len(initialUrls) : Cardinality(PagesOf(initialUrls[i])) = MAX_PAGES

\* C5: a LIST handler goes on to enqueue the next page only if, at that
\* moment, saved < RESULTS_WANTED and pageNo < MAX_PAGES.
C5_NoNextAtTarget ==
    [][\A h \in running' \ running :
           (h.req.label = "LIST" /\ h.pc = "enqNext")
           => (saved' < RESULTS_WANTED /\ h.req.pageNo < MAX_PAGES)]_vars

\* The sources of the seeds in the order of their priority, the strings each
\* can contribute, and whether it holds a usable string.
SourceEntries(k) ==
    CASE k = 1 -> {Trim(input.url)} \ {Undefined}
      [] k = 2 -> {Trim(input.startUrl)} \ {Undefined}
      [] k = 3 -> {Trim(x) : x \in Range(input.startUrls.items)}
      [] OTHER -> {BuiltUrl}

SourceUsable(k) ==
    CASE k = 1 -> IsUsableString(input.url)
      [] k = 2 -> IsUsableString(input.startUrl)
      [] k = 3 -> \E x \in Range(input.startUrls.items) : IsUsableString(x)
      [] OTHER -> TRUE

\* C7: the seeds come from one source, and no source of higher priority is
\* usable.
C7_OneSource ==
    (mainPc # "start" /\ fatal = "none")
    => \E k \in 1..4 :
           /\ {Trim(x) : x \in Range(initialUrls)} \subseteq SourceEntries(k)
           /\ \A j \in 1..(k - 1) : ~SourceUsable(j)

\* C8: after the configuration error nothing is fetched or pushed, and the
\* process ends with a non-zero exit code.
C8_ConfigErrorExit ==
    fatal = "config"
    => /\ fetched = {}
       /\ Pushed = 0
       /\ mainPc = "exited" => exitCode # 0

\* C9: a request answered with 403 or 429 is never recorded as handled.
C9_BlockedNotHandled == \A d \in done : d.blocked => d.result # "ok"

\* C10: no failure but the configuration error ends main().
C10_OnlyConfigFatal == fatal \in {"none", "config"}

\* C11: once saved has reached RESULTS_WANTED no page fetch is started and no
\* waiting request is taken from the queue.
C11_NoFetchAfterTarget ==
    [][saved >= RESULTS_WANTED => (fetched' = fetched /\ queue \subseteq queue')]_vars

\* C12: with one seed and MAX_PAGES > 1, when the handler of the seed's first
\* page found no job link and returned, the seed's second page was handed to
\* the queue.
C12_EmptyPageFallback ==
    \A d \in done :
        (/\ Len(initialUrls) = 1
         /\ MAX_PAGES > 1
         /\ d.label = "LIST" /\ d.result = "ok"
         /\ d.url[2] = 0
         /\ d.url \in emptyPages)
        => ListUrl(d.url[1], 2) \in known

\* Requests with label DETAIL, waiting, in flight or finished.
DetailRequests ==
    {r \in queue : r.label = "DETAIL"}
    \cup {h.req : h \in {x \in running : x.req.label = "DETAIL"}}
    \cup {d \in done : d.label = "DETAIL"}

\* C13: with collectDetails false no DETAIL request is enqueued, no job page
\* is fetched, and every record pushed is a bare url record.
C13_BareOnly ==
    ~collectDetails
    => /\ DetailRequests = {}
       /\ \A u \in JobUrls : enqueued[u] = 0 /\ u \notin fetched
       /\ pushedKinds \subseteq {"bare"}

\* C14: a run that ends without a fatal error has logged the no-records
\* warning iff it saved no record.
C14_NoRecordsWarning ==
    (mainPc = "exited" /\ fatal = "none") => (warned <=> saved = 0)

\* An input that also carries the option dedupe.
WithDedupe(in, d) ==
    [url |-> in.url, startUrl |-> in.startUrl, startUrls |-> in.startUrls,
     results_wanted |-> in.results_wanted, max_pages |-> in.max_pages,
     collectDetails |-> in.collectDetails, dedupe |-> d]

InitDedupe ==
    /\ variant = "cheerio"
    /\ input \in {WithDedupe(in, d) : in \in Inputs({OneSeed}, 1..MaxWanted, 1..MaxPagesIn),
                                     d \in BOOLEAN}
    /\ InitCommon

SpecDedupe == InitDedupe /\ [][NextCheerio]_vars

\* C15: with dedupe = true no url is admitted twice; with dedupe = false the
\* seen-set is not enforced, a LIST handler admits the links of its page up to
\* the remaining budget whether seen or not.
C15_DedupeToggles ==
    /\ input.dedupe => \A u \in JobUrls : admitted[u] <= 1
    /\ ~input.dedupe =>
           \A h \in ListHandlers :
               h.links # <<>>
               => h.toAdmit = SubSeq(h.links, 1, Min(Len(h.links), Max(0, h.remaining)))

\* ------------------------------------------------------------- helpers
\* A call of a helper function: the argument is given, the result follows.
Call(fn, arg) == [fn |-> fn, arg |-> arg, returned |-> FALSE, result |-> Undefined]

\* A rendered string: its parts in order and the separator they are joined
\* with; parts.join(sep) || null, null being no part and no separator.
Null == "<null>"
Joined(parts, sep) ==
    IF parts = <<>> THEN [parts |-> <<>>, sep |-> Null] ELSE [parts |-> parts, sep |-> sep]

\* The parts: String(n), `$${n}`, and a text.
Amount(n) == [amount |-> n, dollar |-> FALSE, text |-> ""]
Dollar(n) == [amount |-> n, dollar |-> TRUE, text |-> ""]
Text(t) == [amount |-> 0, dollar |-> FALSE, text |-> t]

ToLowerCase(s) == CASE s = "YEAR" -> "year" [] s = "HOUR" -> "hour" [] OTHER -> s

\* a || b for the fields of the JSON-LD: 0 and "" stand for an absent
\* (falsy) number and string.
OrNumber(a, b) == IF a # 0 THEN a ELSE b
OrString(a, b) == IF a # "" THEN a ELSE b

\* baseSalary of a JobPosting, an object.
Amounts == {0, 80000, 100000}
Salaries ==
    [value : [value : Amounts, minValue : Amounts, maxValue : Amounts,
              currency : {"", "AUD"}, unitText : {"", "YEAR"}],
     currency : {"", "AUD"}, unitText : {"", "YEAR"}]

\* cheerio: one amount, the currency, the unit in parentheses.
SalaryCheerio(bs) ==
    LET val == bs.value
        amount == OrNumber(val.value, OrNumber(val.minValue, val.maxValue))
        currency == OrString(val.currency, bs.currency)
        unitText == OrString(val.unitText, bs.unitText)
    IN Joined((IF amount # 0 THEN <<Amount(amount)>> ELSE <<>>)
              \o (IF currency # "" THEN <<Text(currency)>> ELSE <<>>)
              \o (IF unitText # "" THEN <<Text("(" \o unitText \o ")")>> ELSE <<>>), " ")

\* playwright: $min, $max, the currency and `per ${unit}`, joined with " - ".
SalaryPlaywright(bs) ==
    LET val == bs.value
    IN Joined((IF val.minValue # 0 THEN <<Dollar(val.minValue)>> ELSE <<>>)
              \o (IF val.maxValue # 0 THEN <<Dollar(val.maxValue)>> ELSE <<>>)
              \o (IF bs.currency # "" THEN <<Text(bs.currency)>> ELSE <<>>)
              \o (IF val.unitText # "" THEN <<Text("per " \o ToLowerCase(val.unitText))>> ELSE <<>>),
              " - ")

Salary(v, bs) == IF v = "playwright" THEN SalaryPlaywright(bs) ELSE SalaryCheerio(bs)

InitSalary ==
    /\ variant \in {"cheerio", "playwright"}
    /\ input \in Inputs({OneSeed}, {1}, {1})
    /\ InitRun
    /\ call \in {Call("salary", bs) : bs \in Salaries}

\* The detail handler maps baseSalary to the record's salary.
EvalSalary ==
    /\ call.fn = "salary"
    /\ ~call.returned
    /\ call' = [call EXCEPT !.returned = TRUE, !.result = Salary(variant, call.arg)]
    /\ UNCHANGED <<variant, input, mainPc, fatal, exitCode, initialUrls, loop, warned>>
    /\ UNCHANGED crawlVars

NextSalary == EvalSalary

SpecSalary == InitSalary /\ [][NextSalary]_vars

AmountsIn(s) == {p.amount : p \in Range(s.parts)} \ {0}

\* C16: the salary rendered from a baseSalary with a minimum and a maximum
\* holds both amounts, and the unit given with them.
C16_SalaryKeepsBounds ==
    (/\ call.fn = "salary" /\ call.returned
     /\ call.arg.value.minValue # 0 /\ call.arg.value.maxValue # 0)
    => /\ call.result.sep # Null
       /\ {call.arg.value.minValue, call.arg.value.maxValue} \subseteq AmountsIn(call.result)
       /\ call.arg.value.unitText # ""
          => \E i \in 1..Len(call.result.parts) :
                 call.result.parts[i].text \in {"per year", "(YEAR)"}


\* ------------------------------------------------------- buildStartUrl
\* Strings the builder takes apart are sequences of one-character strings.
DataAnalyst == <<"d", "a", "t", "a", " ", "a", "n", "a", "l", "y", "s", "t">>
Melbourne == <<"M", "e", "l", "b", "o", "u", "r", "n", "e">>
Keywords == {<<>>, <<" ">>, DataAnalyst, <<" ", "q", "a", " ">>, <<"c", "+", "+">>}
Locations == {<<>>, <<" ">>, Melbourne, <<"M", "t", " ", " ", "I", "s", "a">>,
              <<"R", "y", "d", "e", " ", ",", " ", "N", "S", "W">>}
Categories == {<<>>, <<" ">>, <<"i", "t">>}

IsSpace(c) == c = " "

RECURSIVE TrimStart(_)
TrimStart(s) == IF s # <<>> /\ IsSpace(Head(s)) THEN TrimStart(Tail(s)) ELSE s

RECURSIVE TrimEnd(_)
TrimEnd(s) ==
    IF s # <<>> /\ IsSpace(s[Len(s)]) THEN TrimEnd(SubSeq(s, 1, Len(s) - 1)) ELSE s

\* String.prototype.trim
TrimChars(s) == TrimEnd(TrimStart(s))

LowerChar(c) ==
    CASE c = "M" -> "m" [] c = "I" -> "i" [] c = "R" -> "r"
      [] c = "N" -> "n" [] c = "S" -> "s" [] c = "W" -> "w"
      [] OTHER -> c

\* String.prototype.toLowerCase
LowerChars(s) == [i \in 1..Len(s) |-> LowerChar(s[i])]

\* The end of the run of spaces that starts at i (i - 1 if s[i] is no space).
RECURSIVE SpacesEnd(_, _)
SpacesEnd(s, i) == IF i <= Len(s) /\ IsSpace(s[i]) THEN SpacesEnd(s, i + 1) ELSE i - 1

\* The matches of /\s+,\s+/ as <<first, last>>.
SpacedCommas(s) ==
    {<<i, SpacesEnd(s, SpacesEnd(s, i) + 2)>> : i \in
        {k \in 1..Len(s) :
            /\ IsSpace(s[k])
            /\ SpacesEnd(s, k) + 2 <= Len(s)
            /\ s[SpacesEnd(s, k) + 1] = ","
            /\ IsSpace(s[SpacesEnd(s, k) + 2])}}

\* .replace(/\s+,\s+/, ' '): the leftmost match only.
ReplaceSpacedComma(s) ==
    IF SpacedCommas(s) = {} THEN s
    ELSE LET m == CHOOSE x \in SpacedCommas(s) : \A y \in SpacedCommas(s) : x[1] <= y[1]
         IN SubSeq(s, 1, m[1] - 1) \o <<" ">> \o SubSeq(s, m[2] + 1, Len(s))

\* .replace(/\s+/g, '-'): every run of spaces becomes one hyphen.
RECURSIVE HyphenateSpaces(_)
HyphenateSpaces(s) ==
    IF s = <<>> THEN <<>>
    ELSE IF IsSpace(Head(s))
         THEN <<"-">> \o HyphenateSpaces(SubSeq(s, SpacesEnd(s, 1) + 1, Len(s)))
         ELSE <<Head(s)>> \o HyphenateSpaces(Tail(s))

SlugChars == {"a", "b", "d", "e", "i", "l", "m", "n", "o", "r", "s", "t", "u", "w", "y", "-"}

\* .replace(/[^a-z0-9-]/g, '')
KeepSlugChars(s) == SelectSeq(s, LAMBDA c : c \in SlugChars)

\* URLSearchParams.prototype.toString on one character: the
\* application/x-www-form-urlencoded serialisation.
FormEncodeChar(c) ==
    CASE c = " " -> "+"
      [] c = "+" -> "%2B"
      [] c = "," -> "%2C"
      [] OTHER -> c

FormEncode(s) == [i \in 1..Len(s) |-> FormEncodeChar(s[i])]

\* encodeURIComponent on one character.
PercentEncodeChar(c) ==
    CASE c = " " -> "%20"
      [] c = "+" -> "%2B"
      [] c = "," -> "%2C"
      [] OTHER -> c

PercentEncode(s) == [i \in 1..Len(s) |-> PercentEncodeChar(s[i])]

Param(name, value) == [name |-> name, value |-> FormEncode(value)]

\* buildStartUrl(kw, loc), category being the input's: the URL as its
\* location slug and the parameters of its query string, in order.
buildStartUrl(kw, loc, category) ==
    LET locationSlug ==
            IF loc # <<>>
            THEN KeepSlugChars(HyphenateSpaces(ReplaceSpacedComma(LowerChars(TrimChars(loc)))))
            ELSE <<"a", "u", "s", "t", "r", "a", "l", "i", "a">>
        params ==
            (IF kw # <<>> THEN <<Param("keywords", TrimChars(kw))>> ELSE <<>>)
            \o (IF category # <<>> THEN <<Param("category", TrimChars(category))>> ELSE <<>>)
    IN [slug |-> locationSlug, params |-> params]

InitBuild ==
    /\ variant = "cheerio"
    /\ input \in Inputs({NoSeed}, {1}, {1})
    /\ InitRun
    /\ call \in {Call("buildStartUrl", [kw |-> k, loc |-> l, category |-> c]) :
                    k \in Keywords, l \in Locations, c \in Categories}

EvalBuild ==
    /\ call.fn = "buildStartUrl"
    /\ ~call.returned
    /\ call' = [call EXCEPT !.returned = TRUE,
                            !.result = buildStartUrl(call.arg.kw, call.arg.loc, call.arg.category)]
    /\ UNCHANGED <<variant, input, mainPc, fatal, exitCode, initialUrls, loop, warned>>
    /\ UNCHANGED crawlVars

NextBuild == EvalBuild
SpecBuild == InitBuild /\ [][NextBuild]_vars

ParamsNamed(url, name) == SelectSeq(url.params, LAMBDA p : p.name = name)

\* A parameter is in the URL exactly when its text is non-empty after
\* trimming, and then it carries the trimmed text, percent-encoded.
Attached(url, name, text) ==
    IF TrimChars(text) = <<>> THEN ParamsNamed(url, name) = <<>>
    ELSE ParamsNamed(url, name) = <<[name |-> name, value |-> PercentEncode(TrimChars(text))]>>

\* C17: the built URL has the location's slug (melbourne for Melbourne), and
\* carries keywords and category exactly when they are non-empty after
\* trimming, the keyword "data analyst" as keywords=data%20analyst.
C17_BuiltUrl ==
    (call.fn = "buildStartUrl" /\ call.returned)
    => /\ call.arg.loc = Melbourne => call.result.slug = LowerChars(Melbourne)
       /\ Attached(call.result, "keywords", call.arg.kw)
       /\ Attached(call.result, "category", call.arg.category)


\* The DETAIL requests the queue ever accepted (a URL enqueued twice is one
\* request: the queue drops the second by its uniqueKey).
DetailsEnqueued == known \cap JobUrls

\* C18: with collectDetails, no more DETAIL requests are ever enqueued, over
\* all pages and all seeds, than RESULTS_WANTED.
C18_DetailsWithinWanted ==
    collectDetails => Cardinality(DetailsEnqueued) <= RESULTS_WANTED


\* ---------------------------------------------------------- next page
\* A URL of a results page: its origin and its page parameter (0: none).
\* An href is such a URL, with origin "" when it is relative.
MaxPageParam == 3
Careerone == "https://www.careerone.com.au"
PageUrl(origin, page) == [origin |-> origin, page |-> page]
NoHref == PageUrl("<none>", 0)
Hrefs == {NoHref} \cup {PageUrl(o, p) : o \in {"", Careerone}, p \in 0..MaxPageParam}
RequestUrls == {PageUrl(Careerone, p) : p \in 0..MaxPageParam}

\* href.startsWith('http') ? href : `https://www.careerone.com.au${href}`
Absolute(href) == IF href.origin = "" THEN PageUrl(Careerone, href.page) ELSE href

\* u.searchParams.set('page', String(pageNo + 1)); u.href
WithPage(url, n) == [url EXCEPT !.page = n]

\* What the pagination block does: the URL it passes to enqueueLinks, if any,
\* and the strategy that supplied it.
Enqueue(url, strategy) == [enqueued |-> TRUE, url |-> url, strategy |-> strategy]
NoMorePages == [enqueued |-> FALSE, url |-> NoHref, strategy |-> "none"]

\* main.js: rel="next", then the link with the text Next, then ?page=N; only
\* the last is compared with request.url.
NextCheerioUrl(page, url, pageNo) ==
    IF page.relNext # NoHref THEN Enqueue(Absolute(page.relNext), "rel")
    ELSE IF page.textNext # NoHref THEN Enqueue(Absolute(page.textNext), "text")
    ELSE IF WithPage(url, pageNo + 1) # url THEN Enqueue(WithPage(url, pageNo + 1), "fallback")
    ELSE NoMorePages

\* part_000: the selectors in order, then ?page=N; the URL found is compared
\* with request.url whatever supplied it.
NextPlaywrightUrl(page, url, pageNo) ==
    LET found ==
            IF page.relNext # NoHref THEN Enqueue(Absolute(page.relNext), "rel")
            ELSE IF page.textNext # NoHref THEN Enqueue(Absolute(page.textNext), "text")
            ELSE IF page.lastChild # NoHref THEN Enqueue(Absolute(page.lastChild), "last")
            ELSE Enqueue(WithPage(url, pageNo + 1), "fallback")
    IN IF found.url # url THEN found ELSE NoMorePages

NextUrl(v, page, url, pageNo) ==
    IF v = "playwright" THEN NextPlaywrightUrl(page, url, pageNo)
    ELSE NextCheerioUrl(page, url, pageNo)

InitNextUrl ==
    /\ variant \in {"cheerio", "playwright"}
    /\ input \in Inputs({OneSeed}, {1}, {MaxPagesIn})
    /\ InitRun
    /\ call \in {Call("nextUrl", [page |-> [relNext |-> r, textNext |-> t, lastChild |-> l],
                                  url |-> u, pageNo |-> n]) :
                    r \in Hrefs, t \in Hrefs, l \in {NoHref, PageUrl("", MaxPageParam)},
                    u \in RequestUrls, n \in 1..(MaxPagesIn - 1)}

EvalNextUrl ==
    /\ call.fn = "nextUrl"
    /\ ~call.returned
    /\ call' = [call EXCEPT !.returned = TRUE,
                            !.result = NextUrl(variant, call.arg.page, call.arg.url, call.arg.pageNo)]
    /\ UNCHANGED <<variant, input, mainPc, fatal, exitCode, initialUrls, loop, warned>>
    /\ UNCHANGED crawlVars

NextNextUrl == EvalNextUrl
SpecNextUrl == InitNextUrl /\ [][NextNextUrl]_vars

\* The URL the three strategies give, by priority.
ByPriority(page, url, pageNo) ==
    IF page.relNext # NoHref THEN Absolute(page.relNext)
    ELSE IF page.textNext # NoHref THEN Absolute(page.textNext)
    ELSE WithPage(url, pageNo + 1)

\* C19: the next page enqueued is the one the strategies give by priority
\* (rel="next", the Next link, ?page=pageNo+1), it is never the current page,
\* and nothing is enqueued when no strategy gives another URL than the
\* current one.
C19_NextPageDistinct ==
    (call.fn = "nextUrl" /\ call.returned)
    => LET a == call.arg
       IN /\ call.result.enqueued
             => /\ call.result.url = ByPriority(a.page, a.url, a.pageNo)
                /\ call.result.url # a.url
          /\ (\A h \in {a.page.relNext, a.page.textNext} : h = NoHref \/ Absolute(h) = a.url)
              /\ WithPage(a.url, a.pageNo + 1) = a.url
             => ~call.result.enqueued


\* C20: a LIST handler that starts with a remaining budget r > 0 on a page
\* with at least r links outside the seen-set admits exactly r links, wherever
\* the seen links stand in the page.
C20_AdmitsBudget ==
    [][\A h \in running' \ running :
            (/\ h.req \in queue
             /\ h.req.label = "LIST"
             /\ h.remaining > 0
             /\ Cardinality(Range(h.links) \ seenUrls) >= h.remaining)
            => Len(h.toAdmit) = h.remaining
      ]_vars


\* C21: no URL is marked as seen and then lost: when the crawl is over, every
\* URL of the seen-set was handed to the request queue or pushed to the
\* dataset.
C21_SeenNotLost ==
    mainPc \in {"finished", "exited"}
    => \A u \in seenUrls : u \in known \/ dataset[u] > 0


\* C22: in the hybrid variant the loop of a seed fetches at most MAX_PAGES
\* result pages, whatever the pages hold.
C22_LoopBounded == variant = "hybrid" => loop.fetches <= MAX_PAGES


\* The LIST requests that exist: queued or being handled.
ListRequests ==
    {r \in queue : r.label = "LIST"} \cup {h.req : h \in {x \in running : x.req.label = "LIST"}}

\* The URL of the page before page k of a seed (page 1 is the seed itself).
PageBefore(seed, k) == IF k = 2 THEN ListUrl(seed, 0) ELSE ListUrl(seed, k - 1)

Processed(url) == \E d \in done : d.url = url /\ d.label = "LIST" /\ d.result = "ok"

\* C23: result pages of a seed are ordered.  Every LIST request carries a
\* pageNo in 1..MAX_PAGES, and a request for a page after the first exists only
\* when the page before it has been processed; a new LIST request is a seed
\* with pageNo 1, made at the start, or is made by the returning LIST handler
\* of page k of the same seed, alone, with pageNo k + 1; DETAIL handlers make
\* none.
C23_PagesOrdered ==
    /\ [](\A r \in ListRequests :
            /\ r.pageNo \in 1..MAX_PAGES
            /\ r.pageNo > 1 => Processed(PageBefore(r.url[1], r.pageNo)))
    /\ [][LET new == {r \in queue' \ queue : r.label = "LIST" /\ r.retryCount = 0}
          IN IF mainPc = "start"
             THEN \A r \in new : r.pageNo = 1
             ELSE /\ Cardinality(new) <= 1
                  /\ \A r \in new :
                        /\ r.url \notin known
                        /\ \E h \in running \ running' :
                              /\ h.req.label = "LIST"
                              /\ h.req.url[1] = r.url[1]
                              /\ r.pageNo = h.req.pageNo + 1
                              /\ r.url = ListUrl(h.req.url[1], r.pageNo)
                              /\ Processed(h.req.url)'
         ]_vars

\* The second page of a seed has been fetched.
C23_Witness ==
    \E i \in 1..Len(initialUrls) :
        /\ ListUrl(initialUrls[i], 2) \in fetched
        /\ Processed(ListUrl(initialUrls[i], 0))
        /\ variant = "cheerio"


\* C24: the saved counter equals the number of records whose push has
\* completed, and never decreases; a step changes it only together with the
\* dataset, by the number of records that step pushed.
C24_SavedCountsPushes ==
    /\ [](saved = Pushed)
    /\ [][/\ saved' >= saved
          /\ saved' - saved = Total(dataset') - Total(dataset)
          /\ dataset' = dataset => saved' = saved]_vars

\* Two bare records were pushed in one push, and an awaited call has failed.
C24_Witness ==
    /\ saved = 2
    /\ pushedKinds = {"bare"}
    /\ \E u \in JobUrls : dataset[u] = 0
    /\ faults > 0


\* The requests a step takes from the queue.
Dispatched == {r \in queue : r \notin queue'}

\* C25: a handler whose request is taken from the queue when saved >=
\* RESULTS_WANTED pushes no record, enqueues no request, leaves saved, the
\* seen-set and the page counters as they are, and is not suspended at any
\* await: its request is marked as handled, unless the response was an error
\* or a blocked status, which is thrown before the guard and retried or failed.
C25_SkipHasNoEffect ==
    [][saved >= RESULTS_WANTED
       => \A r \in Dispatched :
            /\ dataset' = dataset /\ pushedKinds' = pushedKinds
            /\ known' = known /\ enqueued' = enqueued
            /\ saved' = saved /\ seenUrls' = seenUrls /\ admitted' = admitted
            /\ stats'.listPages = stats.listPages
            /\ stats'.detailPages = stats.detailPages
            /\ running' = running
            /\ \/ /\ queue' = queue \ {r}
                  /\ done' \ done \subseteq
                        {[url |-> r.url, label |-> r.label, result |-> res, blocked |-> b] :
                            res \in {"ok", "failed"}, b \in BOOLEAN}
                  /\ \E d \in done' : d.url = r.url /\ d.label = r.label
                  /\ stats'.errors = stats.errors
                     => \E d \in done' : d.url = r.url /\ d.label = r.label /\ d.result = "ok"
               \/ /\ queue' = (queue \ {r}) \cup {[r EXCEPT !.retryCount = @ + 1]}
                  /\ done' = done
      ]_vars

\* A DETAIL request and a LIST request were skipped at the target: fetched and
\* handled, with nothing pushed for the one and no page counted for the other.
C25_Witness ==
    /\ saved >= RESULTS_WANTED
    /\ variant = "cheerio"
    /\ \E d \in done :
          /\ d.label = "DETAIL" /\ d.result = "ok" /\ ~d.blocked
          /\ d.url \in fetched /\ dataset[d.url] = 0
    /\ \E d \in done :
          /\ d.label = "LIST" /\ d.result = "ok" /\ ~d.blocked
          /\ stats.listPages < Cardinality({x \in done : x.label = "LIST"})
    /\ running = {}


\* ----------------------------------------------------- detail extractor
\* The fields of a record that the DETAIL branch extracts.  A text is "" when
\* the element or property is absent or empty, " " when it holds white space
\* only.
Fields == {"title", "company", "location_text", "salary", "date_posted", "description_html"}
JsonTexts == {"", "J"}
NoTexts == <<"", "", "">>
HtmlTexts == {NoTexts, <<" ", "", "H">>, <<"", "", " ">>, <<"H", " ", "">>}

\* const clean = (t) => (t ? t.trim().replace(/\s+/g, ' ') : null)
Clean(t) == IF t = "" THEN Null ELSE IF t = " " THEN "" ELSE t

\* a || b
OrElse(a, b) == IF a # Null /\ a # "" THEN a ELSE b

\* The JSON-LD layer: jobJson.field || null, when a JobPosting was found.
JsonLayer(found, json, f) == IF found THEN OrElse(json[f], Null) ELSE Null

\* The HTML layer of a field: the texts of its selectors, cleaned and or-ed.
HtmlLayer(texts, f) ==
    CASE f = "title" -> Clean(texts[1])
      [] f \in {"company", "location_text"} ->
             OrElse(Clean(texts[1]), OrElse(Clean(texts[2]), Clean(texts[3])))
      [] f = "salary" -> OrElse(Clean(texts[1]), Clean(texts[2]))
      [] f = "date_posted" -> IF texts[1] = "" THEN Null ELSE Clean(texts[1])
      [] OTHER -> OrElse(texts[1], Null)

\* The fallback taken first, the JSON-LD value only when the page has none.
HtmlFirst(fromJson, fromHtml) == IF fromHtml # Null /\ fromHtml # "" THEN fromHtml ELSE fromJson

\* if (!field) field = <fallback>
Fallback(fromJson, fromHtml) == IF fromJson # Null /\ fromJson # "" THEN fromJson ELSE fromHtml

\* The item of the DETAIL branch.
DetailItem(found, json, html, url) ==
    [f \in Fields \cup {"url"} |->
        IF f = "url" THEN url ELSE Fallback(JsonLayer(found, json, f), HtmlLayer(html[f], f))]

DetailPages ==
    {[found |-> fd, json |-> j, html |-> h, url |-> "detail-url"] :
        fd \in BOOLEAN,
        j \in [Fields -> JsonTexts],
        h \in {x \in [Fields -> HtmlTexts] :
                 /\ x["title"] \in {NoTexts, <<" ", "", "H">>, <<"H", " ", "">>}
                 /\ x["description_html"] \in {NoTexts, <<"H", " ", "">>}
                 /\ x["date_posted"] \in {NoTexts, <<" ", "", "H">>}
                 /\ x["salary"] \in {NoTexts, <<"", "", " ">>}}}

InitDetail ==
    /\ variant = "cheerio"
    /\ input \in Inputs({OneSeed}, {1}, {1})
    /\ InitRun
    /\ call \in {Call("detailItem", p) : p \in {q \in DetailPages : q.found \/ q.json = [f \in Fields |-> ""]}}

EvalDetail ==
    /\ call.fn = "detailItem"
    /\ ~call.returned
    /\ call' = [call EXCEPT !.returned = TRUE,
                            !.result = DetailItem(call.arg.found, call.arg.json, call.arg.html, call.arg.url)]
    /\ UNCHANGED <<variant, input, mainPc, fatal, exitCode, initialUrls, loop, warned>>
    /\ UNCHANGED crawlVars

NextDetail == EvalDetail
SpecDetail == InitDetail /\ [][NextDetail]_vars

\* C26: a non-empty value taken from JSON-LD is the record's value whatever
\* the HTML holds, the record's url is the request's, and a page with no field
\* at all gives a record with every field null.
C26_FallbackOnlyFills ==
    (call.fn = "detailItem" /\ call.returned)
    => LET a == call.arg
       IN /\ \A f \in Fields : (a.found /\ a.json[f] # "") => call.result[f] = a.json[f]
          /\ call.result["url"] = a.url
          /\ DOMAIN call.result = Fields \cup {"url"}
          /\ ((\A f \in Fields : a.json[f] = "" /\ a.html[f] = NoTexts)
              => \A f \in Fields : call.result[f] = Null)

\* The item of a page whose JSON-LD gives a title and whose HTML gives one
\* too, and a company that only the HTML gives.
C26_Witness ==
    /\ call.fn = "detailItem" /\ call.returned
    /\ call.arg.found
    /\ call.arg.json["title"] = "J" /\ call.arg.html["title"] = <<"H", " ", "">>
    /\ call.arg.json["company"] = "" /\ call.result["company"] = "H"
    /\ call.result["title"] = "J"


\* C27: a results page with no job link is the end of the results, not an
\* error: the step that finds it marks the request as handled, leaves no
\* handler of it behind, enqueues nothing, pushes nothing and leaves saved, the
\* seen-set and the error counters as they are.
C27_EmptyPageEnds ==
    [][\A u \in emptyPages' \ emptyPages :
            /\ \E d \in done' : d.url = u /\ d.label = "LIST" /\ d.result = "ok"
            /\ \A h \in running' : h.req.url # u
            /\ queue' \subseteq queue /\ known' = known /\ enqueued' = enqueued
            /\ dataset' = dataset /\ saved' = saved
            /\ seenUrls' = seenUrls /\ admitted' = admitted
            /\ failed' = failed /\ stats'.errors = stats.errors
      ]_vars

\* The run ended after an empty first page of its only seed: nothing saved,
\* nothing else fetched, no error.
C27_Witness ==
    /\ variant = "cheerio"
    /\ mainPc = "finished"
    /\ Len(initialUrls) = 1
    /\ MAX_PAGES > 1
    /\ emptyPages = {ListUrl(initialUrls[1], 0)}
    /\ fetched = emptyPages
    /\ saved = 0 /\ failed = 0


\* C28: in the cheerio variant the configuration error is raised exactly when
\* url and startUrl are no usable strings and startUrls is a non-empty array
\* without a usable entry; the built url is then no seed, and in every other
\* case there is at least one seed.
C28_NoSeedError ==
    (variant = "cheerio" /\ mainPc # "start")
    => /\ fatal = "config"
          <=> /\ ~IsUsableString(input.url)
              /\ ~IsUsableString(input.startUrl)
              /\ input.startUrls.isArray
              /\ Len(input.startUrls.items) > 0
              /\ \A i \in 1..Len(input.startUrls.items) : ~IsUsableString(input.startUrls.items[i])
       /\ fatal = "config" => initialUrls = <<>>
       /\ fatal # "config" => Len(initialUrls) >= 1

\* The configuration error of an input with a blank url and an array of one
\* blank string.
C28_Witness ==
    /\ variant = "cheerio"
    /\ fatal = "config"
    /\ input.url = "  "
    /\ input.startUrl = Undefined
    /\ input.startUrls = Array(<<"  ">>)
    /\ initialUrls = <<>>


\* ------------------------------------------------------ findJobPosting
\* A JSON value: a scalar, an array of values, or an object with its @type
\* and its other values (kids, in the order of Object.values; the values of
\* @type itself are strings and hold no object).  An @type is absent, a string
\* or an array of strings.
NoType == [isArray |-> FALSE, tags |-> <<>>]
TypeString(s) == [isArray |-> FALSE, tags |-> <<s>>]
TypeArray(tags) == [isArray |-> TRUE, tags |-> tags]
Types == {NoType, TypeString("Organization"), TypeString("JobPosting"),
          TypeArray(<<"Thing", "schema:JOBPOSTING">>)}

Scalar == [kind |-> "scalar", type |-> NoType, kids |-> <<>>]
JsonArray(kids) == [kind |-> "array", type |-> NoType, kids |-> kids]
JsonObject(type, kids) == [kind |-> "object", type |-> type, kids |-> kids]

MaxKids == 2
Composites(values, n) ==
    {JsonArray(k) : k \in SeqsUpTo(values, n)}
    \cup {JsonObject(t, k) : t \in Types, k \in SeqsUpTo(values, n)}

JsonLeaves == {Scalar, JsonObject(NoType, <<>>), JsonObject(TypeString("JobPosting"), <<>>),
               JsonObject(TypeArray(<<"Thing", "schema:JOBPOSTING">>), <<>>)}
JsonValues(n) == Composites({Scalar} \cup Composites(JsonLeaves, n), n)

\* String.prototype.toLowerCase on the tags
LowerTag(s) ==
    CASE s = "JobPosting" -> "jobposting"
      [] s = "schema:JOBPOSTING" -> "schema:jobposting"
      [] s = "Organization" -> "organization"
      [] s = "Thing" -> "thing"
      [] OTHER -> s

\* .includes('jobposting')
IncludesJobposting(s) == s \in {"jobposting", "schema:jobposting"}

\* The type test with === 'JobPosting', on a string @type only.
TypeIsExactly(type) == ~type.isArray /\ type.tags = <<"JobPosting">>

\* typeof type === 'string' && type.toLowerCase().includes('jobposting'), or
\* Array.isArray(type) && type.some(t => String(t).toLowerCase().includes(...))
TypeMatches(type) ==
    \E i \in 1..Len(type.tags) : IncludesJobposting(LowerTag(type.tags[i]))

NotFound == [kind |-> "null", type |-> NoType, kids |-> <<>>]

\* findJobPosting(node): null for a scalar, the first hit among the items of
\* an array, the object itself when its @type matches, else the first hit
\* among its values.
RECURSIVE findJobPosting(_)
FirstFound(kids) ==
    IF \E i \in 1..Len(kids) : findJobPosting(kids[i]) # NotFound
    THEN findJobPosting(kids[CHOOSE i \in 1..Len(kids) :
                                 /\ findJobPosting(kids[i]) # NotFound
                                 /\ \A j \in 1..(i - 1) : findJobPosting(kids[j]) = NotFound])
    ELSE NotFound

findJobPosting(node) ==
    CASE node.kind = "array" -> FirstFound(node.kids)
      [] node.kind = "object" -> IF TypeMatches(node.type) THEN node ELSE FirstFound(node.kids)
      [] OTHER -> NotFound

InitFind ==
    /\ variant = "cheerio"
    /\ input \in Inputs({OneSeed}, {1}, {1})
    /\ InitRun
    /\ call \in {Call("findJobPosting", v) : v \in JsonValues(MaxKids)}

EvalFind ==
    /\ call.fn = "findJobPosting"
    /\ ~call.returned
    /\ call' = [call EXCEPT !.returned = TRUE, !.result = findJobPosting(call.arg)]
    /\ UNCHANGED <<variant, input, mainPc, fatal, exitCode, initialUrls, loop, warned>>
    /\ UNCHANGED crawlVars

NextFind == EvalFind
SpecFind == InitFind /\ [][NextFind]_vars

\* The values of a JSON value in depth-first pre-order.
RECURSIVE PreOrder(_)
RECURSIVE Flatten(_)
Flatten(kids) == IF kids = <<>> THEN <<>> ELSE PreOrder(Head(kids)) \o Flatten(Tail(kids))
PreOrder(node) == <<node>> \o Flatten(node.kids)

\* An object whose @type, or an element of it, contains "jobposting" in any case.
IsJobPosting(node) ==
    /\ node.kind = "object"
    /\ \E i \in 1..Len(node.type.tags) : node.type.tags[i] \in {"JobPosting", "schema:JOBPOSTING"}

\* C29: findJobPosting returns the first object in depth-first pre-order
\* whose @type is or holds a tag containing "jobposting" in any case, and null
\* exactly when the value holds no such object.
C29_FirstJobPosting ==
    (call.fn = "findJobPosting" /\ call.returned)
    => LET hits == SelectSeq(PreOrder(call.arg), IsJobPosting)
       IN IF hits = <<>> THEN call.result = NotFound ELSE call.result = hits[1]

\* A posting with a typed array, found two levels below an untyped object and
\* after an object of another type.
C29_Witness ==
    /\ call.fn = "findJobPosting" /\ call.returned
    /\ call.arg.kind = "object" /\ call.arg.type = NoType
    /\ Len(call.arg.kids) = 2
    /\ call.arg.kids[1].kind = "array"
    /\ call.arg.kids[1].kids = <<JsonObject(NoType, <<>>),
                                 JsonObject(TypeArray(<<"Thing", "schema:JOBPOSTING">>), <<>>)>>
    /\ call.arg.kids[2] = JsonObject(TypeString("JobPosting"), <<JsonObject(NoType, <<>>)>>)
    /\ call.result = JsonObject(TypeArray(<<"Thing", "schema:JOBPOSTING">>), <<>>)


\* ------------------------------------------------ description fallback
\* A candidate container of the detail page: whether the page has it, and how
\* many of its p/div/li elements have a trimmed text of exactly 30 characters
\* and of 31 characters.
DescriptionCap == 80
NoContainer == [present |-> FALSE, n30 |-> 0, n31 |-> 0]
Containers ==
    {NoContainer} \cup [present : {TRUE}, n30 : {0, 1}, n31 : {0, 1, DescriptionCap, DescriptionCap + 1}]

\* The elements of a container that pass `t && t.length > 30`: those of 31
\* characters, not those of 30.
LongTexts(c) == c.n31

\* The chunks collected: the container they come from (0: none), their number
\* and the number taken from the siblings of the h2.
Chunks(i, n, h2) == [container |-> i, count |-> n, afterH2 |-> h2]

\* main.js: the first container with chunks; each() stops at 80 chunks.
RECURSIVE DescriptionCheerio(_, _)
DescriptionCheerio(cs, i) ==
    IF i > Len(cs) THEN Chunks(0, 0, 0)
    ELSE IF cs[i].present /\ LongTexts(cs[i]) > 0
         THEN Chunks(i, Min(LongTexts(cs[i]), DescriptionCap), 0)
         ELSE DescriptionCheerio(cs, i + 1)

\* part_002: the first container with chunks, every long element of it; with
\* no chunk at all, the long siblings after the first h2.
RECURSIVE DescriptionPuppeteer(_, _, _)
DescriptionPuppeteer(cs, i, h2) ==
    IF i > Len(cs) THEN Chunks(0, 0, h2)
    ELSE IF cs[i].present /\ LongTexts(cs[i]) > 0
         THEN Chunks(i, LongTexts(cs[i]), 0)
         ELSE DescriptionPuppeteer(cs, i + 1, h2)

Description(v, page) ==
    IF v = "puppeteer" THEN DescriptionPuppeteer(page.containers, 1, page.afterH2)
    ELSE DescriptionCheerio(page.containers, 1)

InitDescription ==
    /\ variant \in {"cheerio", "puppeteer"}
    /\ input \in Inputs({OneSeed}, {1}, {1})
    /\ InitRun
    /\ call \in {Call("description", [containers |-> <<a, b, c, d>>, afterH2 |-> h]) :
                    a \in Containers, b \in Containers,
                    c \in {NoContainer, [present |-> TRUE, n30 |-> 1, n31 |-> 0]},
                    d \in {NoContainer, [present |-> TRUE, n30 |-> 0, n31 |-> 1]},
                    h \in {0, 2}}

EvalDescription ==
    /\ call.fn = "description"
    /\ ~call.returned
    /\ call' = [call EXCEPT !.returned = TRUE, !.result = Description(variant, call.arg)]
    /\ UNCHANGED <<variant, input, mainPc, fatal, exitCode, initialUrls, loop, warned>>
    /\ UNCHANGED crawlVars

NextDescription == EvalDescription
SpecDescription == InitDescription /\ [][NextDescription]_vars

\* The candidates, in their order, that hold an element with more than 30
\* characters of text.
Yielding(cs) == {i \in 1..Len(cs) : cs[i].present /\ cs[i].n31 > 0}

\* C30: the fallback description comes from the first candidate container
\* (job-description, description, article, main) that holds an element with
\* more than 30 characters of text, from that container alone, and has at most
\* 80 elements.
C30_DescriptionCapped ==
    (call.fn = "description" /\ call.returned /\ Yielding(call.arg.containers) # {})
    => /\ call.result.container \in Yielding(call.arg.containers)
       /\ \A i \in Yielding(call.arg.containers) : call.result.container <= i
       /\ call.result.afterH2 = 0
       /\ call.result.count \in 1..80

====
